---- MODULE Spec2Model ----
(***************************************************************************)
(* MoodRhythm: the Capture Recorder (src/src/typing_logger.py,             *)
(* class TypingLogger) as a state machine.                                 *)
(*                                                                         *)
(* Threads.  Foreground threads (FG) call start, stop, get_current_stats   *)
(* and get_events.  Every keyboard.Listener that start() creates is a      *)
(* thread of its own that calls _on_press once per key press while it is   *)
(* running.  Each statement of a method that touches a field of the        *)
(* recorder is one step; the program counter of a step is named after the  *)
(* source line it is about to execute.                                     *)
(*                                                                         *)
(* Time is in whole milliseconds (time.time() * 1000 in the source is a    *)
(* float; the model keeps the integer part).  An optional value (Python's  *)
(* None) is the empty sequence, a present value v is <<v>>.                *)
(***************************************************************************)
EXTENDS Integers, Sequences, FiniteSets, TLC

\* ---------------------------------------------------------------- bounds
\* Spec: one foreground thread and the listener's thread
MaxSessions == 1      \* start() calls that begin a session (one uuid, one listener each)
MaxKeys     == 2      \* physical key presses
MaxTicks    == 1      \* readings of the clock that find it advanced
\* SpecRestart: the same, over a second session
RestartSessions == 2
\* SpecRace: two foreground threads
RaceSessions == 2
RaceKeys     == 1
RaceTicks    == 0
\* SpecHost: one foreground thread, the input layer unavailable to one listener
HostSessions == 2
HostKeys     == 2
HostTicks    == 0

\* ------------------------------------------------------ program constants
PAUSE_THRESHOLD == 2000
BURST_THRESHOLD == 50

\* ------------------------------------------------------------ vocabulary
FG        == {"f1", "f2"}                 \* foreground (UI / orchestration) threads
\* The threads are alike and keep nothing between two calls, and the lock lets
\* one thread at a time into get_current_stats or get_events: the states in
\* which f2 is the reader are those in which f1 is, with the names swapped.
Readers   == {"f1"}
Largest(S) == CHOOSE n \in S : \A m \in S : m <= n
\* listener objects, by order of creation
Listeners == 1 .. Largest({MaxSessions, RestartSessions, RaceSessions, HostSessions})
\* by how much the clock has advanced when it is read, if it has (ms): with
\* no advance an interval is 0 (a burst), with these it is 2000 (neither a
\* burst nor a pause) or above (a pause)
Deltas    == {PAUSE_THRESHOLD, PAUSE_THRESHOLD + 1}

None      == << >>
Some(v)   == << v >>
IsNone(o) == o = << >>
Val(o)    == o[1]

Free       == << >>                       \* the lock is not held
FgId(t)    == << "fg", t >>
LsId(l)    == << "ls", l >>

NoEvent == [timestamp |-> 0, interval |-> None, is_pause |-> FALSE,
            is_burst |-> FALSE, session_id |-> 0]

VARIABLES
  \* fields of TypingLogger
  listener,            \* self.listener: 0 (None) or a listener
  is_running,          \* self.is_running
  session_id,          \* self.session_id: 0 (None) or a uuid
  last_keypress_time,  \* self.last_keypress_time (optional)
  keypress_count,      \* self.keypress_count
  session_start_time,  \* self.session_start_time (optional)
  events,              \* self.events
  on_event_callback,   \* self.on_event_callback is set (TRUE) or None (FALSE)
  lock,                \* self._lock: Free or the thread that holds it
  \* the host
  now,                 \* the clock, ms
  nTicks,              \* clock advances so far
  nKeys,               \* physical key presses so far
  nStarts,             \* start() calls that passed the is_running check
  lstate,              \* listener -> "none" | "created" | "running" | "stopped" |
                       \* "failed": its thread has ended on an error of the host
  \* listener threads inside _on_press
  lpc,                 \* listener -> "idle", the line about to run, "raised":
                       \* an exception is leaving _on_press into the input layer,
                       \* or "blocked": waiting for a lock that it holds itself
  lloc,                \* listener -> locals of _on_press
  \* foreground threads
  pc,                  \* thread -> "idle", the line about to run, or "ret": the
                       \* call is returning res[t] (or raising) to its caller
  call,                \* thread -> the uuid / listener that its start() makes
  res,                 \* thread -> result of its last call (being built while it runs)
  \* history (not read by the program)
  hist,
  \* the run, never changed: its bounds [threads, sessions, keys, ticks], the
  \* listeners to which the host's input layer is unavailable, and whether
  \* the observer reads the recorder (get_events / get_current_stats)
  run,
  \* the Pattern Analyzer (src/src/mood_analyzer.py): the input of a call, and
  \* once the call was made, the method, its arguments and what it returned
  analysis,
  \* the application (src/app.py, src/src/data_store.py): the rows of the
  \* store, the recorder's buffer as the page sees it, and one run of main()
  app

recorder == << listener, is_running, session_id, last_keypress_time, keypress_count,
               session_start_time, events, on_event_callback, lock >>
host     == << now, nTicks, nKeys, nStarts, lstate >>
lthreads == << lpc, lloc >>
fthreads == << pc, call, res >>
vars     == << recorder, host, lthreads, fthreads, hist, run, analysis, app >>

\* no input is given to the analyzer
NoAnalysis == [call |-> "none"]
\* the page is not run
NoApp == [pc |-> "none"]

NoLocals == [current_time |-> 0, interval |-> None, is_pause |-> FALSE,
             is_burst |-> FALSE, count |-> 0, event |-> NoEvent, late |-> FALSE,
             error |-> "none"]
NoRes    == [op |-> "none"]

\* History.  handled: key presses since the last start() that began a session.
\* stopReturned: a stop() has returned while no start() was in progress, and
\* no start() was called since.
\* stopSeen: some stop() found the recorder Running (got past line 110).  dirty[t]: a step of _on_press, start or
\* stop was taken since t called get_current_stats.  last, prev: the results
\* of the last two get_current_stats calls that ran, one after the other, with
\* no step of _on_press, start or stop since the first of them was called.
NoHist == [handled |-> 0, stopReturned |-> FALSE, stopSeen |-> FALSE,
           dirty |-> [t \in FG |-> TRUE], last |-> None, prev |-> None]
Touch(h) == [h EXCEPT !.dirty = [t \in FG |-> TRUE], !.last = None, !.prev = None]

StartPcs == {"89", "91", "92", "93", "94", "95", "97", "98", "99", "101"}
StartInProgress == \E t \in FG : pc[t] \in StartPcs
\* stop() has returned and the next start() has not been called
AfterStop == hist.stopReturned

\* TypingLogger.__init__, with an observer: TypingLogger(on_event_callback=f).
\* The observer returns or raises, as it likes, each time it is called; a
\* recorder made without one behaves as one whose observer always returns.
Constructed ==
  /\ listener = 0
  /\ is_running = FALSE
  /\ session_id = 0
  /\ last_keypress_time = None
  /\ keypress_count = 0
  /\ session_start_time = None
  /\ events = << >>
  /\ on_event_callback = TRUE
  /\ lock = Free
  /\ now = 0 /\ nTicks = 0 /\ nKeys = 0 /\ nStarts = 0
  /\ lstate = [l \in Listeners |-> "none"]
  /\ lpc = [l \in Listeners |-> "idle"]
  /\ lloc = [l \in Listeners |-> NoLocals]
  /\ pc = [t \in FG |-> "idle"]
  /\ call = [t \in FG |-> 0]
  /\ res = [t \in FG |-> NoRes]
  /\ hist = NoHist

Init ==
  /\ Constructed
  /\ run = [threads |-> {"f1"}, sessions |-> MaxSessions, keys |-> MaxKeys,
            ticks |-> MaxTicks, unavailable |-> {}, reads |-> FALSE]
  /\ analysis = NoAnalysis
  /\ app = NoApp

InitRestart ==
  /\ Constructed
  /\ run = [threads |-> {"f1"}, sessions |-> RestartSessions, keys |-> MaxKeys,
            ticks |-> MaxTicks, unavailable |-> {}, reads |-> FALSE]
  /\ analysis = NoAnalysis
  /\ app = NoApp

InitRace ==
  /\ Constructed
  /\ run = [threads |-> FG, sessions |-> RaceSessions, keys |-> RaceKeys,
            ticks |-> RaceTicks, unavailable |-> {}, reads |-> FALSE]
  /\ analysis = NoAnalysis
  /\ app = NoApp

\* The host cannot grant access to key events to the listener of one of the
\* start() calls, and can to the others.
InitHost ==
  /\ Constructed
  /\ \E l \in 1 .. HostSessions :
       run = [threads |-> {"f1"}, sessions |-> HostSessions, keys |-> HostKeys,
              ticks |-> HostTicks, unavailable |-> {l},
              reads |-> FALSE]
  /\ analysis = NoAnalysis
  /\ app = NoApp

\* ------------------------------------------------------------- the host
\* time.time() * 1000: the clock never goes backwards.  It is seen only when
\* it is read, so it advances there: by 0 or by one of Deltas since the reading
\* before.  now' is the value read.
ReadClock ==
  \E d \in {0} \cup Deltas :
    /\ d # 0 => nTicks < run.ticks
    /\ now' = now + d
    /\ nTicks' = IF d = 0 THEN nTicks ELSE nTicks + 1

\* A key is pressed: every running listener calls _on_press(key).  The time
\* stamp is taken inside _on_press, so a press that the host queues behind a
\* callback in progress is a press made when that callback has returned.
KeyPress ==
  /\ nKeys < run.keys
  /\ \E l \in Listeners : lstate[l] = "running"
  /\ \A l \in Listeners : lstate[l] = "running" => lpc[l] = "idle"
  /\ nKeys' = nKeys + 1
  /\ lpc' = [l \in Listeners |-> IF lstate[l] = "running" THEN "52" ELSE lpc[l]]
  /\ lloc' = [l \in Listeners |-> IF lstate[l] = "running"
                                    THEN [NoLocals EXCEPT !.late = AfterStop]
                                    ELSE lloc[l]]
  /\ hist' = [Touch(hist) EXCEPT !.handled = @ + 1]
  /\ UNCHANGED << recorder, now, nTicks, nStarts, lstate, fthreads, run, analysis, app >>

\* ------------------------------------------------- TypingLogger._on_press
\* What a step of _on_press leaves alone, apart from the recorder's fields.
PressFrame(l, next) ==
  /\ lpc' = [lpc EXCEPT ![l] = next]
  /\ hist' = Touch(hist)
  /\ UNCHANGED << nKeys, nStarts, lstate, fthreads, run, analysis, app >>

\* line 52: current_time = time.time() * 1000
press_52(l) ==
  /\ lpc[l] = "52"
  /\ ReadClock
  /\ lloc' = [lloc EXCEPT ![l].current_time = now']
  /\ PressFrame(l, "54")
  /\ UNCHANGED recorder

\* line 54: with self._lock (blocks while another thread holds it)
press_54(l) ==
  /\ lpc[l] = "54"
  /\ lock = Free
  /\ lock' = LsId(l)
  /\ PressFrame(l, "59")
  /\ UNCHANGED << listener, is_running, session_id, last_keypress_time, keypress_count,
                  session_start_time, events, on_event_callback, lloc, now, nTicks >>

\* lines 55-59: interval = None, is_pause = is_burst = False;
\* if self.last_keypress_time is not None
press_59(l) ==
  /\ lpc[l] = "59"
  /\ lloc' = [lloc EXCEPT ![l].interval = None, ![l].is_pause = FALSE,
                          ![l].is_burst = FALSE]
  /\ PressFrame(l, IF IsNone(last_keypress_time) THEN "64" ELSE "60")
  /\ UNCHANGED << recorder, now, nTicks >>

\* (a variant: the thresholds taken as inclusive)
Classify_inclusive(loc, interval) ==
  [loc EXCEPT !.interval = Some(interval),
              !.is_pause = interval >= PAUSE_THRESHOLD,
              !.is_burst = interval <= BURST_THRESHOLD]

Classify(loc, interval) ==
  [loc EXCEPT !.interval = Some(interval),
              !.is_pause = interval > PAUSE_THRESHOLD,
              !.is_burst = interval < BURST_THRESHOLD]

\* lines 60-62: interval = current_time - self.last_keypress_time, and the two
\* flags.  The field is read again: when start() has set it to None since line
\* 59, the subtraction raises TypeError, which leaves the with block (the lock
\* is released) and _on_press.
press_60(l) ==
  /\ lpc[l] = "60"
  /\ IF IsNone(last_keypress_time)
       THEN /\ lock' = Free
            /\ lloc' = [lloc EXCEPT ![l].error = "TypeError"]
            /\ PressFrame(l, "raised")
            /\ UNCHANGED << listener, is_running, session_id, last_keypress_time,
                            keypress_count, session_start_time, events,
                            on_event_callback >>
       ELSE /\ lloc' = [lloc EXCEPT
                          ![l] = Classify(@, @.current_time - Val(last_keypress_time))]
            /\ PressFrame(l, "64")
            /\ UNCHANGED recorder
  /\ UNCHANGED << now, nTicks >>

\* line 64: self.last_keypress_time = current_time
press_64(l) ==
  /\ lpc[l] = "64"
  /\ last_keypress_time' = Some(lloc[l].current_time)
  /\ PressFrame(l, "65")
  /\ UNCHANGED << listener, is_running, session_id, keypress_count, session_start_time,
                  events, on_event_callback, lock, lloc, now, nTicks >>

\* line 65: self.keypress_count += 1, the load
press_65(l) ==
  /\ lpc[l] = "65"
  /\ lloc' = [lloc EXCEPT ![l].count = keypress_count]
  /\ PressFrame(l, "65w")
  /\ UNCHANGED << recorder, now, nTicks >>

\* line 65: self.keypress_count += 1, the store
press_65w(l) ==
  /\ lpc[l] = "65w"
  /\ keypress_count' = lloc[l].count + 1
  /\ PressFrame(l, "67")
  /\ UNCHANGED << listener, is_running, session_id, last_keypress_time,
                  session_start_time, events, on_event_callback, lock, lloc, now, nTicks >>

\* lines 67-73: event = {...}
press_67(l) ==
  /\ lpc[l] = "67"
  /\ lloc' = [lloc EXCEPT ![l].event =
                 [timestamp |-> lloc[l].current_time, interval |-> lloc[l].interval,
                  is_pause |-> lloc[l].is_pause, is_burst |-> lloc[l].is_burst,
                  session_id |-> session_id]]
  /\ PressFrame(l, "75")
  /\ UNCHANGED << recorder, now, nTicks >>

\* line 75: self.events.append(event)
press_75(l) ==
  /\ lpc[l] = "75"
  /\ events' = Append(events, lloc[l].event)
  /\ PressFrame(l, "78")
  /\ UNCHANGED << listener, is_running, session_id, last_keypress_time, keypress_count,
                  session_start_time, on_event_callback, lock, lloc, now, nTicks >>

\* lines 78-79: if self.on_event_callback: self.on_event_callback(event); then
\* the with block ends and the lock is released.  The callback is the
\* caller's code: it returns or raises.  Nothing catches what it raises.
\* A callback that reads the recorder calls get_events() or
\* get_current_stats() in this thread, inside the with block: their first
\* line (161, 127) is with self._lock, and threading.Lock is not reentrant, so
\* the acquire never returns.  The thread is "blocked": it holds the lock and
\* has no further step.
press_78(l) ==
  /\ lpc[l] = "78"
  /\ \E outcome \in (IF ~on_event_callback THEN {"returns"}
                      ELSE IF run.reads THEN {"returns", "raises", "reads"}
                      ELSE {"returns", "raises"}) :
        CASE outcome = "raises" ->
               /\ lock' = Free
               /\ lloc' = [lloc EXCEPT ![l].error = "callback"]
               /\ PressFrame(l, "raised")
          [] outcome = "returns" ->
               /\ lock' = Free
               /\ lloc' = [lloc EXCEPT ![l] = NoLocals]
               /\ PressFrame(l, "idle")
          [] outcome = "reads" ->
               /\ PressFrame(l, "blocked")
               /\ UNCHANGED << lock, lloc >>
  /\ UNCHANGED << listener, is_running, session_id, last_keypress_time, keypress_count,
                  session_start_time, events, on_event_callback, now, nTicks >>

\* The exception has left _on_press: the input layer has it.
press_raised(l) ==
  /\ lpc[l] = "raised"
  /\ lloc' = [lloc EXCEPT ![l] = NoLocals]
  /\ PressFrame(l, "idle")
  /\ UNCHANGED << recorder, now, nTicks >>

on_press(l) ==
  \/ press_52(l) \/ press_54(l) \/ press_59(l) \/ press_60(l) \/ press_64(l)
  \/ press_65(l) \/ press_65w(l) \/ press_67(l) \/ press_75(l) \/ press_78(l)
  \/ press_raised(l)


\* ---------------------------------------------------- TypingLogger.start
\* What a step of a foreground call to start or stop leaves alone, apart from
\* the recorder's fields.
CallFrame(t, next) ==
  /\ pc' = [pc EXCEPT ![t] = next]
  /\ UNCHANGED << now, nTicks, nKeys, lthreads, run, analysis, app >>

\* The same for a step that reads the clock.
ClockFrame(t, next) ==
  /\ pc' = [pc EXCEPT ![t] = next]
  /\ UNCHANGED << nKeys, lthreads, run, analysis, app >>

\* line 88: if self.is_running.  A call that goes on to begin a session is
\* given the uuid and the listener that lines 91 and 97 will make.
start_88(t) ==
  /\ pc[t] = "idle"
  /\ IF is_running
       THEN /\ CallFrame(t, "89")
            /\ UNCHANGED << nStarts, call >>
            /\ hist' = [Touch(hist) EXCEPT !.stopReturned = FALSE]
       ELSE /\ nStarts < run.sessions
            /\ nStarts' = nStarts + 1
            /\ call' = [call EXCEPT ![t] = nStarts + 1]
            /\ CallFrame(t, "91")
            /\ hist' = [Touch(hist) EXCEPT !.stopReturned = FALSE, !.handled = 0]
  /\ res' = [res EXCEPT ![t] = [op |-> "start", done |-> FALSE,
                                was_running |-> is_running,
                                session_id |-> 0, error |-> FALSE]]
  /\ UNCHANGED << recorder, lstate >>

\* (a variant: the fields of lines 93-95 are reset before the early return)
start_89_resets(t) ==
  /\ pc[t] = "89"
  /\ res' = [res EXCEPT ![t].session_id = session_id, ![t].done = TRUE]
  /\ last_keypress_time' = None
  /\ keypress_count' = 0
  /\ events' = << >>
  /\ hist' = Touch(hist)
  /\ CallFrame(t, "ret")
  /\ UNCHANGED << listener, is_running, session_id, session_start_time,
                  on_event_callback, lock, nStarts, lstate, call >>

\* line 89: return self.session_id
start_89(t) ==
  /\ pc[t] = "89"
  /\ res' = [res EXCEPT ![t].session_id = session_id, ![t].done = TRUE]
  /\ hist' = Touch(hist)
  /\ CallFrame(t, "ret")
  /\ UNCHANGED << recorder, nStarts, lstate, call >>

\* line 91: self.session_id = str(uuid.uuid4())
start_91(t) ==
  /\ pc[t] = "91"
  /\ session_id' = call[t]
  /\ hist' = Touch(hist)
  /\ CallFrame(t, "92")
  /\ UNCHANGED << listener, is_running, last_keypress_time, keypress_count,
                  session_start_time, events, on_event_callback, lock,
                  nStarts, lstate, call, res >>

\* line 92: self.session_start_time = time.time() * 1000
start_92(t) ==
  /\ pc[t] = "92"
  /\ ReadClock
  /\ session_start_time' = Some(now')
  /\ hist' = Touch(hist)
  /\ ClockFrame(t, "93")
  /\ UNCHANGED << listener, is_running, session_id, last_keypress_time, keypress_count,
                  events, on_event_callback, lock, nStarts, lstate, call, res >>

\* line 93: self.last_keypress_time = None
start_93(t) ==
  /\ pc[t] = "93"
  /\ last_keypress_time' = None
  /\ hist' = Touch(hist)
  /\ CallFrame(t, "94")
  /\ UNCHANGED << listener, is_running, session_id, keypress_count, session_start_time,
                  events, on_event_callback, lock, nStarts, lstate, call, res >>

\* line 94: self.keypress_count = 0
start_94(t) ==
  /\ pc[t] = "94"
  /\ keypress_count' = 0
  /\ hist' = Touch(hist)
  /\ CallFrame(t, "95")
  /\ UNCHANGED << listener, is_running, session_id, last_keypress_time,
                  session_start_time, events, on_event_callback, lock,
                  nStarts, lstate, call, res >>

\* line 95: self.events = []
start_95(t) ==
  /\ pc[t] = "95"
  /\ events' = << >>
  /\ hist' = Touch(hist)
  /\ CallFrame(t, "97")
  /\ UNCHANGED << listener, is_running, session_id, last_keypress_time, keypress_count,
                  session_start_time, on_event_callback, lock, nStarts, lstate, call, res >>

\* line 97: self.listener = keyboard.Listener(on_press=self._on_press).  When
\* the input layer is unavailable the constructor may raise, which leaves
\* start() before the field is assigned.
start_97(t) ==
  /\ pc[t] = "97"
  /\ hist' = Touch(hist)
  /\ \E raises \in (IF call[t] \in run.unavailable THEN BOOLEAN ELSE {FALSE}) :
        IF raises
          THEN /\ res' = [res EXCEPT ![t].error = TRUE, ![t].done = TRUE]
               /\ CallFrame(t, "ret")
               /\ UNCHANGED << listener, lstate >>
          ELSE /\ listener' = call[t]
               /\ lstate' = [lstate EXCEPT ![call[t]] = "created"]
               /\ CallFrame(t, "98")
               /\ UNCHANGED res
  /\ UNCHANGED << is_running, session_id, last_keypress_time, keypress_count,
                  session_start_time, events, on_event_callback, lock, nStarts, call >>

\* line 98: self.listener.start().  The field is read again; a listener is a
\* thread, and a thread that was started before raises RuntimeError, which
\* leaves start().  start() of a thread returns when the thread has begun to
\* run: when the input layer is unavailable, either the call raises, or the
\* listener's thread meets the host's refusal and ends ("failed") while the
\* call returns as for a listener that runs.
start_98(t) ==
  /\ pc[t] = "98"
  /\ hist' = Touch(hist)
  /\ \E outcome \in (IF lstate[listener] # "created" THEN {"raises"}
                      ELSE IF listener \in run.unavailable THEN {"raises", "failed"}
                      ELSE {"running"}) :
        IF outcome = "raises"
          THEN /\ res' = [res EXCEPT ![t].error = TRUE, ![t].done = TRUE]
               /\ CallFrame(t, "ret")
               /\ UNCHANGED lstate
          ELSE /\ lstate' = [lstate EXCEPT ![listener] = outcome]
               /\ CallFrame(t, "99")
               /\ UNCHANGED res
  /\ UNCHANGED << recorder, nStarts, call >>

\* line 99: self.is_running = True
start_99(t) ==
  /\ pc[t] = "99"
  /\ is_running' = TRUE
  /\ hist' = Touch(hist)
  /\ CallFrame(t, "101")
  /\ UNCHANGED << listener, session_id, last_keypress_time, keypress_count,
                  session_start_time, events, on_event_callback, lock,
                  nStarts, lstate, call, res >>

\* line 101: return self.session_id
start_101(t) ==
  /\ pc[t] = "101"
  /\ res' = [res EXCEPT ![t].session_id = session_id, ![t].done = TRUE]
  /\ hist' = Touch(hist)
  /\ CallFrame(t, "ret")
  /\ UNCHANGED << recorder, nStarts, lstate, call >>

start(t) ==
  \/ start_88(t) \/ start_89(t) \/ start_91(t) \/ start_92(t) \/ start_93(t)
  \/ start_94(t) \/ start_95(t) \/ start_97(t) \/ start_98(t) \/ start_99(t)
  \/ start_101(t)

\* ----------------------------------------------------- TypingLogger.stop
\* (a variant: the check of line 110 is missing)
stop_110_unguarded(t) ==
  /\ pc[t] = "idle"
  /\ res' = [res EXCEPT ![t] = [op |-> "stop", done |-> FALSE, empty |-> FALSE,
                                session_id |-> 0, duration_ms |-> 0,
                                total_keypresses |-> 0, events |-> << >>]]
  /\ hist' = [Touch(hist) EXCEPT !.stopSeen = TRUE]
  /\ CallFrame(t, "113")
  /\ UNCHANGED << recorder, nStarts, lstate, call >>

\* line 110: if not self.is_running: return {}
stop_110(t) ==
  /\ pc[t] = "idle"
  /\ res' = [res EXCEPT ![t] = [op |-> "stop", done |-> ~is_running, empty |-> ~is_running,
                                session_id |-> 0, duration_ms |-> 0,
                                total_keypresses |-> 0, events |-> << >>]]
  /\ hist' = [Touch(hist) EXCEPT !.stopSeen = @ \/ is_running,
                                 !.stopReturned = @ \/ (~is_running /\ ~StartInProgress)]
  /\ CallFrame(t, IF is_running THEN "113" ELSE "ret")
  /\ UNCHANGED << recorder, nStarts, lstate, call >>

\* line 113: self.listener.stop().  A running listener calls _on_press no
\* more; a call of _on_press that has begun goes on.  A listener that was not
\* started yet is not running, and stop() leaves it as it is.
stop_113(t) ==
  /\ pc[t] = "113"
  /\ lstate' = [lstate EXCEPT ![listener] = IF @ = "running" THEN "stopped" ELSE @]
  /\ hist' = Touch(hist)
  /\ CallFrame(t, "114")
  /\ UNCHANGED << recorder, nStarts, call, res >>

\* line 114: self.is_running = False
stop_114(t) ==
  /\ pc[t] = "114"
  /\ is_running' = FALSE
  /\ hist' = Touch(hist)
  /\ CallFrame(t, "116")
  /\ UNCHANGED << listener, session_id, last_keypress_time, keypress_count,
                  session_start_time, events, on_event_callback, lock,
                  nStarts, lstate, call, res >>

\* line 116: session_duration = (time.time() * 1000 - self.session_start_time) / 1000
stop_116(t) ==
  /\ pc[t] = "116"
  /\ ReadClock
  /\ res' = [res EXCEPT ![t].duration_ms = now' - Val(session_start_time)]
  /\ hist' = Touch(hist)
  /\ ClockFrame(t, "119")
  /\ UNCHANGED << recorder, nStarts, lstate, call >>

\* line 119: 'session_id': self.session_id
stop_119(t) ==
  /\ pc[t] = "119"
  /\ res' = [res EXCEPT ![t].session_id = session_id]
  /\ hist' = Touch(hist)
  /\ CallFrame(t, "121")
  /\ UNCHANGED << recorder, nStarts, lstate, call >>

\* line 121: 'total_keypresses': self.keypress_count
stop_121(t) ==
  /\ pc[t] = "121"
  /\ res' = [res EXCEPT ![t].total_keypresses = keypress_count]
  /\ hist' = Touch(hist)
  /\ CallFrame(t, "122")
  /\ UNCHANGED << recorder, nStarts, lstate, call >>

\* line 122: 'events': self.events.copy(), and the summary is returned
stop_122(t) ==
  /\ pc[t] = "122"
  /\ res' = [res EXCEPT ![t].events = events, ![t].done = TRUE]
  /\ hist' = [Touch(hist) EXCEPT !.stopReturned = ~StartInProgress]
  /\ CallFrame(t, "ret")
  /\ UNCHANGED << recorder, nStarts, lstate, call >>

stop(t) ==
  \/ stop_110(t) \/ stop_113(t) \/ stop_114(t) \/ stop_116(t) \/ stop_119(t)
  \/ stop_121(t) \/ stop_122(t)

\* ---------------------------------------- TypingLogger.get_current_stats
\* round(n / d, 1) in tenths, d > 0: the nearest tenth, a tie to the even one.
\* (The source rounds a float, where a decimal tie is decided by the float's
\* binary expansion; no statement below depends on the side a tie falls.)
Round1(n, d) ==
  LET q == (10 * n) \div d
      r == (10 * n) % d
  IN  IF 2 * r > d \/ (2 * r = d /\ q % 2 = 1) THEN q + 1 ELSE q

RECURSIVE SumIntervals(_)
SumIntervals(es) ==
  IF es = << >> THEN 0
  ELSE (IF IsNone(Head(es).interval) THEN 0 ELSE Val(Head(es).interval))
       + SumIntervals(Tail(es))

\* line 143: the events whose interval is not None
CountIntervals(es) == Cardinality({i \in 1 .. Len(es) : ~IsNone(es[i].interval)})
\* line 147: sum(1 for e in self.events if e['is_pause'])
CountPauses(es)    == Cardinality({i \in 1 .. Len(es) : es[i].is_pause})
\* line 148: sum(1 for e in self.events if e['is_burst'])
CountBursts(es)    == Cardinality({i \in 1 .. Len(es) : es[i].is_burst})

\* line 140: wpm = (self.keypress_count / 5) / max(session_duration, 0.01),
\* session_duration in minutes; returned as round(wpm, 1) (line 151), in tenths
Wpm(count, duration_ms) ==
  Round1(count * 12000, IF duration_ms > 600 THEN duration_ms ELSE 600)

\* lines 143-144: the mean of the intervals that are not None, 0 when there is
\* none; returned as round(avg_interval, 1) (line 152), in tenths
AvgInterval(es) ==
  IF CountIntervals(es) = 0 THEN 0
  ELSE Round1(SumIntervals(es), CountIntervals(es))

StatsDefaults ==
  [op |-> "stats", done |-> TRUE, wpm |-> 0, avg_interval |-> 0, pause_count |-> 0,
   burst_count |-> 0, keypress_count |-> 0, session_duration |-> 0,
   at |-> None, duration_ms |-> 0]

\* The six values get_current_stats returns.
StatsValue(r) ==
  << r.wpm, r.avg_interval, r.pause_count, r.burst_count, r.keypress_count,
     r.session_duration >>

\* A step of get_current_stats or get_events: not a step of _on_press, start or stop.
ReadFrame(t, next) ==
  /\ pc' = [pc EXCEPT ![t] = next]
  /\ UNCHANGED << nKeys, nStarts, lstate, lthreads, call, run, analysis, app >>

\* get_current_stats returns r to t
Returned(t, r) ==
  IF hist.dirty[t] THEN hist
  ELSE [hist EXCEPT !.prev = hist.last, !.last = Some(r)]

\* line 127: with self._lock
stats_127(t) ==
  /\ pc[t] = "idle"
  /\ lock = Free
  /\ lock' = FgId(t)
  /\ res' = [res EXCEPT ![t] = [StatsDefaults EXCEPT !.done = FALSE]]
  /\ hist' = [hist EXCEPT !.dirty[t] = FALSE]
  /\ ReadFrame(t, "128")
  /\ UNCHANGED << listener, is_running, session_id, last_keypress_time, keypress_count,
                  session_start_time, events, on_event_callback, now, nTicks >>

\* lines 128-136: if not self.is_running or not self.events: return the zeros
stats_128(t) ==
  /\ pc[t] = "128"
  /\ IF ~is_running \/ events = << >>
       THEN /\ res' = [res EXCEPT ![t] = StatsDefaults]
            /\ lock' = Free
            /\ hist' = Returned(t, StatsDefaults)
            /\ ReadFrame(t, "ret")
       ELSE /\ ReadFrame(t, "139")
            /\ UNCHANGED << res, lock, hist >>
  /\ UNCHANGED << listener, is_running, session_id, last_keypress_time, keypress_count,
                  session_start_time, events, on_event_callback, now, nTicks >>

\* line 139: session_duration = (time.time() * 1000 - self.session_start_time) / 1000 / 60
stats_139(t) ==
  /\ pc[t] = "139"
  /\ ReadClock
  /\ res' = [res EXCEPT ![t].at = Some(now'),
                        ![t].duration_ms = now' - Val(session_start_time)]
  /\ ReadFrame(t, "140")
  /\ UNCHANGED << recorder, hist >>

\* line 140: wpm
stats_140(t) ==
  /\ pc[t] = "140"
  /\ res' = [res EXCEPT ![t].wpm = Wpm(keypress_count, res[t].duration_ms)]
  /\ ReadFrame(t, "143")
  /\ UNCHANGED << recorder, hist, now, nTicks >>

\* lines 143-144: avg_interval
stats_143(t) ==
  /\ pc[t] = "143"
  /\ res' = [res EXCEPT ![t].avg_interval = AvgInterval(events)]
  /\ ReadFrame(t, "147")
  /\ UNCHANGED << recorder, hist, now, nTicks >>

\* line 147: pause_count
stats_147(t) ==
  /\ pc[t] = "147"
  /\ res' = [res EXCEPT ![t].pause_count = CountPauses(events)]
  /\ ReadFrame(t, "148")
  /\ UNCHANGED << recorder, hist, now, nTicks >>

\* line 148: burst_count
stats_148(t) ==
  /\ pc[t] = "148"
  /\ res' = [res EXCEPT ![t].burst_count = CountBursts(events)]
  /\ ReadFrame(t, "150")
  /\ UNCHANGED << recorder, hist, now, nTicks >>

\* (a variant: the buffer is drained when the statistics are returned)
stats_150_drains(t) ==
  /\ pc[t] = "150"
  /\ LET r == [res[t] EXCEPT !.keypress_count = keypress_count,
                             !.session_duration = Round1(res[t].duration_ms, 1000),
                             !.done = TRUE]
     IN  /\ res' = [res EXCEPT ![t] = r]
         /\ hist' = Returned(t, r)
  /\ lock' = Free
  /\ events' = << >>
  /\ ReadFrame(t, "ret")
  /\ UNCHANGED << listener, is_running, session_id, last_keypress_time, keypress_count,
                  session_start_time, on_event_callback, now, nTicks >>

\* lines 150-157: the result, with 'keypress_count': self.keypress_count and
\* 'session_duration': round(session_duration * 60, 1); the lock is released
stats_150(t) ==
  /\ pc[t] = "150"
  /\ LET r == [res[t] EXCEPT !.keypress_count = keypress_count,
                             !.session_duration = Round1(res[t].duration_ms, 1000),
                             !.done = TRUE]
     IN  /\ res' = [res EXCEPT ![t] = r]
         /\ hist' = Returned(t, r)
  /\ lock' = Free
  /\ ReadFrame(t, "ret")
  /\ UNCHANGED << listener, is_running, session_id, last_keypress_time, keypress_count,
                  session_start_time, events, on_event_callback, now, nTicks >>

get_current_stats(t) ==
  \/ stats_127(t) \/ stats_128(t) \/ stats_139(t) \/ stats_140(t) \/ stats_143(t)
  \/ stats_147(t) \/ stats_148(t) \/ stats_150(t)

\* ----------------------------------------------- TypingLogger.get_events
\* line 161: with self._lock
events_161(t) ==
  /\ pc[t] = "idle"
  /\ lock = Free
  /\ lock' = FgId(t)
  /\ res' = [res EXCEPT ![t] = [op |-> "events", done |-> FALSE, events |-> << >>,
                                session_id |-> 0, running |-> FALSE]]
  /\ ReadFrame(t, "162")
  /\ UNCHANGED << listener, is_running, session_id, last_keypress_time, keypress_count,
                  session_start_time, events, on_event_callback, hist, now, nTicks >>

\* line 162: return self.events.copy(); the lock is released.  The copy is a
\* list of its own; with it are noted (they are not returned) the session and
\* the state of the recorder at the copy.
events_162(t) ==
  /\ pc[t] = "162"
  /\ res' = [res EXCEPT ![t].events = events, ![t].done = TRUE,
                        ![t].session_id = session_id, ![t].running = is_running]
  /\ lock' = Free
  /\ ReadFrame(t, "ret")
  /\ UNCHANGED << listener, is_running, session_id, last_keypress_time, keypress_count,
                  session_start_time, events, on_event_callback, hist, now, nTicks >>

get_events(t) == events_161(t) \/ events_162(t)

\* ------------------------------------------------------------ the caller
\* The call of t returns res[t] to its caller (or raises), and t is free again.
Return(t) ==
  /\ pc[t] = "ret"
  /\ pc' = [pc EXCEPT ![t] = "idle"]
  /\ res' = [res EXCEPT ![t] = NoRes]
  /\ call' = [call EXCEPT ![t] = 0]
  /\ UNCHANGED << recorder, host, lthreads, hist, run, analysis, app >>

\* ------------------------------------------------------ the specification
Next ==
  \/ KeyPress
  \/ \E l \in Listeners : on_press(l)
  \/ \E t \in run.threads : start(t)
  \/ \E t \in run.threads : stop(t)
  \/ \E t \in run.threads \cap Readers : get_current_stats(t)
  \/ \E t \in run.threads \cap Readers : get_events(t)
  \/ \E t \in run.threads : Return(t)

Spec        == Init /\ [][Next]_vars
SpecRestart == InitRestart /\ [][Next]_vars
SpecRace    == InitRace /\ [][Next]_vars
SpecHost    == InitHost /\ [][Next]_vars

\* The observer may read the recorder.  A call that has begun goes on, and a
\* thread that waits for the lock gets it when it is free again and again:
\* the steps of each _on_press and of each call in progress are strongly
\* fair.  Nothing makes a key be pressed or a call begin.
InitObserver ==
  /\ Constructed
  /\ run = [threads |-> {"f1"}, sessions |-> MaxSessions, keys |-> MaxKeys,
            ticks |-> MaxTicks, unavailable |-> {}, reads |-> TRUE]
  /\ analysis = NoAnalysis
  /\ app = NoApp

InProgress(t) ==
  /\ pc[t] # "idle"
  /\ (start(t) \/ stop(t) \/ get_current_stats(t) \/ get_events(t) \/ Return(t))

Fairness ==
  /\ \A l \in Listeners : SF_vars(on_press(l))
  /\ \A t \in FG : SF_vars(InProgress(t))

SpecObserver == InitObserver /\ [][Next]_vars /\ Fairness
\* the same with an observer that does not read the recorder
SpecFair     == Init /\ [][Next]_vars /\ Fairness


\* ============================================================ MoodAnalyzer
\* src/src/mood_analyzer.py, class MoodAnalyzer: pure functions of a list of
\* events.  An event is a dict; `has` is the set of its keys, and a field
\* whose key is absent holds a filler that is never read.  Numbers that the
\* source holds as floats are exact here: a ratio is [num, den] with den > 0,
\* and what stands at a boundary in exact arithmetic may fall on either side
\* of it in floats.

\* ---------------------------------------------------------------- bounds
MaxEvents == 20       \* evs in a list given to the analyzer
MaxStats  == 2        \* records in a list given to get_weekly_rhythm

\* ------------------------------------------------------ program constants
MOOD_FOCUSED  == "Focused"
MOOD_STRESSED == "Stressed"
MOOD_RELAXED  == "Relaxed"
MOOD_FATIGUED == "Fatigued"
MOOD_NEUTRAL  == "Neutral"
LOW_WPM_THRESHOLD == 30
HIGH_BURST_RATIO  == [num |-> 3, den |-> 10]
HIGH_PAUSE_RATIO  == [num |-> 1, den |-> 10]
RHYTHM_CONSISTENCY_THRESHOLD == [num |-> 3, den |-> 10]

\* --------------------------------------------------------------- inputs
Keys == {"timestamp", "interval", "is_pause", "is_burst"}

\* The events of a list, by kind.  first: the first event of a session.
\* burst, steady, pause: as the recorder classifies intervals of 0, 100 and
\* 3000 ms.  marked: flagged a pause with no interval.  bare: a dict with a
\* timestamp and nothing else.  untimed: a dict without timestamp.
Kinds == {"first", "burst", "steady", "pause", "marked", "bare", "untimed"}

OfKind(k) ==
  CASE k = "first"   -> [has |-> Keys, timestamp |-> 0, interval |-> None,
                         is_pause |-> FALSE, is_burst |-> FALSE]
    [] k = "burst"   -> [has |-> Keys, timestamp |-> 0, interval |-> Some(0),
                         is_pause |-> FALSE, is_burst |-> TRUE]
    [] k = "steady"  -> [has |-> Keys, timestamp |-> 0, interval |-> Some(100),
                         is_pause |-> FALSE, is_burst |-> FALSE]
    [] k = "pause"   -> [has |-> Keys, timestamp |-> 0, interval |-> Some(3000),
                         is_pause |-> TRUE, is_burst |-> FALSE]
    [] k = "marked"  -> [has |-> Keys, timestamp |-> 0, interval |-> None,
                         is_pause |-> TRUE, is_burst |-> FALSE]
    [] k = "bare"    -> [has |-> {"timestamp"}, timestamp |-> 0, interval |-> None,
                         is_pause |-> FALSE, is_burst |-> FALSE]
    [] k = "untimed" -> [has |-> Keys \ {"timestamp"}, timestamp |-> 0,
                         interval |-> Some(100), is_pause |-> FALSE, is_burst |-> FALSE]

\* A list is up to three runs of like events: a run is << kind, length >>.
RunLengths == {1, 5, 15}
Runs       == Kinds \X RunLengths
RunLists   == UNION {[1 .. k -> Runs] : k \in 0 .. 3}

RECURSIVE Expand(_)
Expand(rs) ==
  IF rs = << >> THEN << >>
  ELSE [i \in 1 .. Head(rs)[2] |-> OfKind(Head(rs)[1])] \o Expand(Tail(rs))

\* the time from one event of a list to the next (ms)
Steps == {0, 100, 6000}
Stamp(es, step) == [i \in 1 .. Len(es) |-> [es[i] EXCEPT !.timestamp = (i - 1) * step]]

RECURSIVE RunTotal(_)
RunTotal(rs) == IF rs = << >> THEN 0 ELSE Head(rs)[2] + RunTotal(Tail(rs))

EventLists ==
  {Stamp(Expand(rs), step) : rs \in {r \in RunLists : RunTotal(r) <= MaxEvents},
                             step \in Steps}

\* the wpm argument: None, or a number of words per minute
WpmArgs == {None} \cup {Some([num |-> w, den |-> 1]) : w \in {0, 20, 32, 40, 100}}
\* the window_size argument
Windows == {1, 2, 4, 30}

\* ------------------------------------------------------------ arithmetic
RECURSIVE GCD(_, _)
GCD(a, b) == IF b = 0 THEN a ELSE GCD(b, a % b)

\* n / d in lowest terms, n >= 0 and d > 0
Ratio(n, d) == LET g == GCD(n, d) IN [num |-> n \div g, den |-> d \div g]

Min(a, b) == IF a <= b THEN a ELSE b
Max(a, b) == IF a >= b THEN a ELSE b
\* max(lo, min(hi, x))
Clamp(lo, hi, x) == Max(lo, Min(hi, x))
\* int(a / b), b > 0: towards zero
Trunc(a, b) == IF a >= 0 THEN a \div b ELSE -((-a) \div b)
\* the whole part of a square root
Isqrt(x) == CHOOSE k \in 0 .. x : k * k <= x /\ x < (k + 1) * (k + 1)

RECURSIVE Total(_)
Total(xs) == IF xs = << >> THEN 0 ELSE Head(xs) + Total(Tail(xs))

\* e.get('interval') is not None
HasInterval(e) == "interval" \in e.has /\ ~IsNone(e.interval)
\* [e['interval'] for e in events if e.get('interval') is not None]
Intervals(evs) ==
  LET timed == SelectSeq(evs, HasInterval)
  IN  [i \in 1 .. Len(timed) |-> Val(timed[i].interval)]
\* sum(1 for e in events if e.get('is_burst', False))
BurstCount(evs) ==
  Cardinality({i \in 1 .. Len(evs) : "is_burst" \in evs[i].has /\ evs[i].is_burst})
\* sum(1 for e in events if e.get('is_pause', False))
PauseCount(evs) ==
  Cardinality({i \in 1 .. Len(evs) : "is_pause" \in evs[i].has /\ evs[i].is_pause})

\* ----------------------------------- MoodAnalyzer.calculate_energy_score
\* (a variant: the result is not clamped)
EnergyResult_unclamped(e, d) == Trunc(e, d)

\* line 82: max(0, min(100, int(energy))), energy = e / d
EnergyResult(e, d) == Clamp(0, 100, Trunc(e, d))

\* lines 51-82.  With n intervals of sum S among N events, B of them bursts
\* and P pauses: speed_score = speed / (10 n), burst_score = burst / N,
\* pause_penalty = 50 P / N, energy = e / (100 n N); the boost of lines 78-80
\* multiplies by min(1.5, wpm / 40).
calculate_energy_score(evs, wpm) ==
  IF evs = << >> THEN 50
  ELSE IF Intervals(evs) = << >> THEN 50
  ELSE LET n     == Len(Intervals(evs))
           N     == Len(evs)
           S     == Total(Intervals(evs))
           speed == Clamp(0, 1000 * n, 1000 * n - S)
           burst == Min(100 * N, 300 * BurstCount(evs))
           e     == 4 * speed * N + 40 * n * burst - 5000 * PauseCount(evs) * n
           d     == 100 * n * N
       IN  IF IsNone(wpm) \/ Val(wpm).num = 0 THEN EnergyResult(e, d)
           ELSE IF Val(wpm).num >= 60 * Val(wpm).den THEN EnergyResult(3 * e, 2 * d)
           ELSE EnergyResult(e * Val(wpm).num, d * 40 * Val(wpm).den)

\* ------------------------------------------------ MoodAnalyzer.detect_mood
\* a method ends in KeyError: a key that is read is absent
KeyError == [error |-> TRUE]

\* lines 96-100 and 104-108; confidence is in thousandths, {} is None
NeutralNoData ==
  [error |-> FALSE, mood |-> MOOD_NEUTRAL, confidence |-> 0, indicators |-> None]

\* round(n / d, 3) in thousandths, d > 0 (nearest, a tie to the even one)
Round3(n, d) ==
  LET q == (1000 * n) \div d
      r == (1000 * n) % d
  IN  IF 2 * r > d \/ (2 * r = d /\ q % 2 = 1) THEN q + 1 ELSE q

\* lines 111-119.  n intervals of sum S (ms) among N events, B bursts, P
\* pauses.  cv = std / mean does not depend on the unit of the intervals: the
\* intervals of the model are whole hundreds of ms, and Su, their sum, and V,
\* n times the sum of their squares less the square of their sum, are taken
\* in hundreds of ms, so that cv * cv = V / (Su * Su) when the mean is above 0.
Metrics(evs, wpm) ==
  LET xs == Intervals(evs)
      us == [i \in 1 .. Len(xs) |-> xs[i] \div 100]
      sq == [i \in 1 .. Len(xs) |-> us[i] * us[i]]
  IN  [n |-> Len(xs), N |-> Len(evs), S |-> Total(xs), Su |-> Total(us),
       V |-> Len(xs) * Total(sq) - Total(us) * Total(us),
       B |-> BurstCount(evs), P |-> PauseCount(evs), wpm |-> wpm]

\* cv < r and cv > r, for a ratio r; line 113: cv is 0 when the mean is not above 0
CvBelow(m, r) == m.Su = 0 \/ r.den * r.den * m.V < r.num * r.num * m.Su * m.Su
CvAbove(m, r) == m.Su # 0 /\ r.den * r.den * m.V > r.num * r.num * m.Su * m.Su

\* the whole part of c * 10000 * cv * cv, for a mean above 0
CvSquare(m, c) ==
  c * ((10000 * m.V) \div (m.Su * m.Su))
    + (c * ((10000 * m.V) % (m.Su * m.Su))) \div (m.Su * m.Su)
\* c * 10000 * cv * cv is whole
CvSquareWhole(m, c) == (c * ((10000 * m.V) % (m.Su * m.Su))) % (m.Su * m.Su) = 0

\* 300 * cv, rounded up
Cv300(m) ==
  IF m.Su = 0 \/ m.V = 0 THEN 0
  ELSE Isqrt(CvSquare(m, 9) - (IF CvSquareWhole(m, 9) THEN 1 ELSE 0)) + 1

\* line 128: round(1 - min(cv, 1), 2), in hundredths
RhythmConsistency(m) ==
  IF m.Su = 0 THEN 100
  ELSE IF m.V >= m.Su * m.Su THEN 0
  ELSE 100 - (Isqrt(CvSquare(m, 4)) + 1) \div 2

\* lines 122-124: wpm estimated from the first and the last timestamp
EstimatedWpm(evs) ==
  LET span == evs[Len(evs)].timestamp - evs[1].timestamp
  IN  IF span > 0 THEN Ratio(12000 * Len(evs), Max(span, 600)) ELSE Ratio(0, 1)

\* lines 126-132, avg_interval and wpm in tenths, rhythm_consistency in
\* hundredths, the ratios in thousandths
Indicators(m) ==
  [avg_interval |-> Round1(m.S, m.n), rhythm_consistency |-> RhythmConsistency(m),
   burst_ratio |-> Round3(m.B, m.N), pause_ratio |-> Round3(m.P, m.N),
   wpm |-> Round1(m.wpm.num, m.wpm.den)]

\* lines 139-156: the conditions in the order of the if / elif chain, each
\* with its mood and its confidence (thousandths, rounded down)
Rules(m) ==
  LET focused  == CvBelow(m, RHYTHM_CONSISTENCY_THRESHOLD) /\ m.wpm.num > 35 * m.wpm.den
      stressed == /\ m.B * HIGH_BURST_RATIO.den > HIGH_BURST_RATIO.num * m.N
                  /\ CvAbove(m, [num |-> 1, den |-> 2])
      relaxed  == /\ m.wpm.num < LOW_WPM_THRESHOLD * m.wpm.den
                  /\ m.P * HIGH_PAUSE_RATIO.den < HIGH_PAUSE_RATIO.num * m.N
      fatigued == m.P * HIGH_PAUSE_RATIO.den > HIGH_PAUSE_RATIO.num * m.N
  IN  << [holds |-> focused, mood |-> MOOD_FOCUSED,
          confidence |-> IF focused THEN 1000 - Cv300(m) ELSE 0],
         [holds |-> stressed, mood |-> MOOD_STRESSED,
          confidence |-> 600 + (400 * m.B) \div m.N],
         [holds |-> relaxed, mood |-> MOOD_RELAXED,
          confidence |-> IF relaxed
                           THEN 600 + (400 * (30 * m.wpm.den - m.wpm.num))
                                        \div (30 * m.wpm.den)
                           ELSE 0],
         [holds |-> fatigued, mood |-> MOOD_FATIGUED,
          confidence |-> 500 + (2000 * m.P) \div m.N] >>

\* (a variant: the last condition that holds decides)
LastMatch(rules) ==
  IF \A i \in 1 .. Len(rules) : ~rules[i].holds
    THEN [holds |-> TRUE, mood |-> MOOD_NEUTRAL, confidence |-> 500]
    ELSE rules[CHOOSE i \in 1 .. Len(rules) :
                 rules[i].holds /\ \A j \in (i + 1) .. Len(rules) : ~rules[j].holds]

\* lines 135-156: the first condition that holds decides; Neutral, 0.5 when
\* none does
FirstMatch(rules) ==
  IF \A i \in 1 .. Len(rules) : ~rules[i].holds
    THEN [holds |-> TRUE, mood |-> MOOD_NEUTRAL, confidence |-> 500]
    ELSE rules[CHOOSE i \in 1 .. Len(rules) :
                 rules[i].holds /\ \A j \in 1 .. (i - 1) : ~rules[j].holds]

\* (a variant: the confidence is returned as computed)
Clamped_not(confidence) == confidence

\* line 160: min(confidence, 1.0)
Clamped(confidence) == Min(confidence, 1000)

\* (a variant: one defined interval is enough)
EnoughIntervals_one(intervals) == Len(intervals) >= 1

\* line 103: if len(intervals) < 5, return the neutral result
EnoughIntervals(intervals) == Len(intervals) >= 5

\* lines 95-162
detect_mood(evs, wpm) ==
  IF Len(evs) < 10 THEN NeutralNoData
  ELSE IF ~EnoughIntervals(Intervals(evs)) THEN NeutralNoData
  ELSE IF /\ IsNone(wpm)
          /\ \/ "timestamp" \notin evs[Len(evs)].has
             \/ "timestamp" \notin evs[1].has
         THEN KeyError
  ELSE LET m == Metrics(evs, IF IsNone(wpm) THEN EstimatedWpm(evs) ELSE Val(wpm))
           c == FirstMatch(Rules(m))
       IN  [error |-> FALSE, mood |-> c.mood, confidence |-> Clamped(c.confidence),
            indicators |-> Some(Indicators(m))]

\* -------------------------------------------- MoodAnalyzer.analyze_session
\* lines 174-210; wpm and duration_seconds in tenths.  The dict returned for
\* the empty list (lines 175-182) has no key 'mood_confidence'.
analyze_session(evs) ==
  IF evs = << >>
    THEN [error |-> FALSE, mood |-> MOOD_NEUTRAL,
          energy_score |-> 50, wpm |-> 0, total_keypresses |-> 0,
          duration_seconds |-> 0, indicators |-> None]
  ELSE IF /\ Len(evs) >= 2
          /\ \/ "timestamp" \notin evs[Len(evs)].has
             \/ "timestamp" \notin evs[1].has
         THEN KeyError
  ELSE LET duration_ms == IF Len(evs) >= 2
                            THEN evs[Len(evs)].timestamp - evs[1].timestamp
                            ELSE 0
           wpm         == Ratio(12000 * Len(evs), Max(duration_ms, 600))
           mood_result == detect_mood(evs, Some(wpm))
       IN  [error |-> FALSE, mood |-> mood_result.mood,
            mood_confidence |-> Some(mood_result.confidence),
            energy_score |-> calculate_energy_score(evs, Some(wpm)),
            wpm |-> Round1(wpm.num, wpm.den), total_keypresses |-> Len(evs),
            duration_seconds |-> Round1(duration_ms, 1000),
            indicators |-> mood_result.indicators]

\* ------------------------------------ MoodAnalyzer.calculate_mood_timeline
\* lines 225-230 and 239-244: the point of a list (or window) that is not empty
Point(evs) ==
  LET analysis_ == analyze_session(evs)
  IN  IF analysis_.error \/ "timestamp" \notin evs[Len(evs)].has THEN KeyError
      ELSE [error |-> FALSE, timestamp |-> evs[Len(evs)].timestamp,
            mood |-> analysis_.mood, energy_score |-> analysis_.energy_score,
            wpm |-> analysis_.wpm]

\* (a variant: a short list is analysed by its last event alone)
ShortTimeline_last(evs) ==
  IF evs = << >>
    THEN [error |-> FALSE,
          points |-> << [error |-> FALSE, timestamp |-> 0, mood |-> MOOD_NEUTRAL,
                         energy_score |-> 50, wpm |-> 0] >>]
  ELSE IF Point(<< evs[Len(evs)] >>).error THEN KeyError
  ELSE [error |-> FALSE, points |-> << Point(<< evs[Len(evs)] >>) >>]

\* lines 223-230: len(events) < window_size
ShortTimeline(evs) ==
  IF evs = << >>
    THEN [error |-> FALSE,
          points |-> << [error |-> FALSE, timestamp |-> 0,
                         mood |-> analyze_session(evs).mood,
                         energy_score |-> analyze_session(evs).energy_score,
                         wpm |-> analyze_session(evs).wpm] >>]
  ELSE IF Point(evs).error THEN KeyError
  ELSE [error |-> FALSE, points |-> << Point(evs) >>]

\* (a variant: the windows do not overlap)
WindowStep_whole(window_size) == window_size

\* line 233: step = max(1, window_size // 2)
WindowStep(window_size) == Max(1, window_size \div 2)

\* lines 235-244: the windows that begin at index i (from 0), i + step, ...
RECURSIVE SlideFrom(_, _, _, _)
SlideFrom(evs, window_size, step, i) ==
  IF i > Len(evs) - window_size THEN << >>
  ELSE << Point(SubSeq(evs, i + 1, i + window_size)) >>
         \o SlideFrom(evs, window_size, step, i + step)

\* lines 223-246, window_size >= 1
calculate_mood_timeline(evs, window_size) ==
  IF Len(evs) < window_size THEN ShortTimeline(evs)
  ELSE LET timeline == SlideFrom(evs, window_size, WindowStep(window_size), 0)
       IN  IF \E k \in 1 .. Len(timeline) : timeline[k].error THEN KeyError
           ELSE [error |-> FALSE, points |-> timeline]

\* ------------------------------------------ MoodAnalyzer.get_weekly_rhythm
\* the hourly records of a list: day_of_week, hour and keypress_count
StatDays   == {0, 1}
StatHours  == {0, 9}
StatCounts == {0, 5, 120}
HourlyStats == [day_of_week : StatDays, hour : StatHours, keypress_count : StatCounts]
StatLists   == UNION {[1 .. k -> HourlyStats] : k \in 0 .. MaxStats}

\* line 267: 7 days of 24 hours, all 0
ZeroMatrix == [day \in 0 .. 6 |-> [hour \in 0 .. 23 |-> 0]]

\* lines 269-272: a record sets its cell, the later of two for one cell stays
RECURSIVE Fill(_, _)
Fill(matrix, stats) ==
  IF stats = << >> THEN matrix
  ELSE Fill([matrix EXCEPT ![Head(stats).day_of_week][Head(stats).hour] =
                              Head(stats).keypress_count],
            Tail(stats))

\* lines 275-284: the scan goes day by day and hour by hour and replaces the
\* peak only by a strictly larger cell, so it ends at the first cell, in that
\* order, that holds the largest count, or at its start (0, 0, 0) when no
\* cell is above 0
Cells == (0 .. 6) \X (0 .. 23)
ScannedBefore(a, b) == a[1] < b[1] \/ (a[1] = b[1] /\ a[2] < b[2])
\* (a variant: a later cell with the same count replaces the peak)
FindPeak_last(matrix) ==
  IF \A c \in Cells : matrix[c[1]][c[2]] <= 0
    THEN [max_activity |-> 0, peak_hour |-> 0, peak_day |-> 0]
  ELSE LET last == CHOOSE c \in Cells :
                     /\ \A d \in Cells : matrix[d[1]][d[2]] <= matrix[c[1]][c[2]]
                     /\ \A d \in Cells : ScannedBefore(c, d)
                                            => matrix[d[1]][d[2]] < matrix[c[1]][c[2]]
       IN  [max_activity |-> matrix[last[1]][last[2]], peak_hour |-> last[2],
            peak_day |-> last[1]]

FindPeak(matrix) ==
  IF \A c \in Cells : matrix[c[1]][c[2]] <= 0
    THEN [max_activity |-> 0, peak_hour |-> 0, peak_day |-> 0]
  ELSE LET first == CHOOSE c \in Cells :
                      /\ \A d \in Cells : matrix[d[1]][d[2]] <= matrix[c[1]][c[2]]
                      /\ \A d \in Cells : ScannedBefore(d, c)
                                             => matrix[d[1]][d[2]] < matrix[c[1]][c[2]]
       IN  [max_activity |-> matrix[first[1]][first[2]], peak_hour |-> first[2],
            peak_day |-> first[1]]

\* line 294: daily_totals = [sum(row) for row in activity_matrix]
DailyTotals(matrix) ==
  [day \in 0 .. 6 |-> Total([h \in 1 .. 24 |-> matrix[day][h - 1]])]

\* line 296: daily_totals.index(max(daily_totals))
MostActiveDay(totals) ==
  CHOOSE day \in 0 .. 6 : /\ \A other \in 0 .. 6 : totals[other] <= totals[day]
                          /\ \A before \in 0 .. (day - 1) : totals[before] < totals[day]

\* lines 258-304.  An insight is the text with the day (and the hour) named
\* in it; the empty matrix of line 262 is << >>.
get_weekly_rhythm(hourly_stats) ==
  IF hourly_stats = << >>
    THEN [peak_hour |-> None, peak_day |-> None, activity_matrix |-> << >>,
          insights |-> << >>]
  ELSE LET activity_matrix == Fill(ZeroMatrix, hourly_stats)
           peak   == FindPeak(activity_matrix)
           totals == DailyTotals(activity_matrix)
       IN  [peak_hour |-> Some(peak.peak_hour), peak_day |-> Some(peak.peak_day),
            activity_matrix |-> activity_matrix,
            insights |->
              (IF peak.max_activity > 0
                 THEN << [text |-> "Peak activity", day |-> peak.peak_day,
                          hour |-> Some(peak.peak_hour)] >>
                 ELSE << >>)
              \o (IF \E day \in 0 .. 6 : totals[day] # 0
                    THEN << [text |-> "Most active day", day |-> MostActiveDay(totals),
                             hour |-> None] >>
                    ELSE << >>)]

\* ------------------------------------------------- the analyzer's callers
\* The analyzer is given a list of events or a list of hourly records.
InitAnalyzer ==
  /\ Constructed
  /\ run = [threads |-> {}, sessions |-> 0, keys |-> 0, ticks |-> 0, unavailable |-> {}, reads |-> FALSE]
  /\ \/ \E es \in EventLists : analysis = [call |-> "none", events |-> es]
     \/ \E ss \in StatLists : analysis = [call |-> "none", hourly_stats |-> ss]
  /\ app = NoApp

\* A call of the analyzer leaves the recorder alone.
AnalyzerFrame == UNCHANGED << recorder, host, lthreads, fthreads, hist, run, app >>

EnergyScoreCall ==
  /\ analysis.call = "none" /\ "events" \in DOMAIN analysis
  /\ \E w \in WpmArgs :
       analysis' = [call |-> "calculate_energy_score", events |-> analysis.events,
                    wpm |-> w, out |-> calculate_energy_score(analysis.events, w)]
  /\ AnalyzerFrame

DetectMoodCall ==
  /\ analysis.call = "none" /\ "events" \in DOMAIN analysis
  /\ \E w \in WpmArgs :
       analysis' = [call |-> "detect_mood", events |-> analysis.events,
                    wpm |-> w, out |-> detect_mood(analysis.events, w)]
  /\ AnalyzerFrame

AnalyzeSessionCall ==
  /\ analysis.call = "none" /\ "events" \in DOMAIN analysis
  /\ analysis' = [call |-> "analyze_session", events |-> analysis.events,
                  out |-> analyze_session(analysis.events)]
  /\ AnalyzerFrame

MoodTimelineCall ==
  /\ analysis.call = "none" /\ "events" \in DOMAIN analysis
  /\ \E w \in Windows :
       analysis' = [call |-> "calculate_mood_timeline", events |-> analysis.events,
                    window_size |-> w,
                    out |-> calculate_mood_timeline(analysis.events, w)]
  /\ AnalyzerFrame

WeeklyRhythmCall ==
  /\ analysis.call = "none" /\ "hourly_stats" \in DOMAIN analysis
  /\ analysis' = [call |-> "get_weekly_rhythm", hourly_stats |-> analysis.hourly_stats,
                  out |-> get_weekly_rhythm(analysis.hourly_stats)]
  /\ AnalyzerFrame

NextAnalyzer ==
  \/ EnergyScoreCall
  \/ DetectMoodCall
  \/ AnalyzeSessionCall
  \/ MoodTimelineCall
  \/ WeeklyRhythmCall

SpecAnalyzer == InitAnalyzer /\ [][NextAnalyzer]_vars


\* ============================================================================
\* The application: src/app.py (main) and src/src/data_store.py (DataStore)
\* ============================================================================
MaxSaved == 15        \* events of one recorded session

\* data_store.py line 129: limit: int = 10000
DEFAULT_LIMIT == 10000

\* The events of a session as the recorder makes them with a key every 100
\* ms from `base` on: the first without interval, the others with 100.
SessionEvents(len, base) ==
  [i \in 1 .. len |->
     [OfKind(IF i = 1 THEN "first" ELSE "steady") EXCEPT
        !.timestamp = base + (i - 1) * 100]]

SessionLengths == {0, 5, MaxSaved}
\* the times (ms) at which the sessions of a run begin: two stored ones and
\* the one being recorded
Bases == [first |-> 0, second |-> 10000, live |-> 20000]
\* now less 7 days and now less 1 day, as get_events_last_n_days computes them
\* at lines 319 and 383: nothing, or the first stored session, is older
Cutoffs == {<< 0, 0 >>, << 0, Bases.second >>, << Bases.second, Bases.second >>}

\* data_store.py lines 70-93, save_events: a row for each event, in the order
\* of the list
save_events(table, evs) == table \o evs

\* data_store.py lines 125-166, DataStore.get_events (the recorder has a
\* get_events of its own) without session_id and end_time:
\* the rows with timestamp >= start_time (all rows when start_time is 0 or
\* None: line 152 tests its truth), ORDER BY timestamp DESC, LIMIT limit.
\* The timestamps of the rows are distinct.
DataStore_get_events(table, start_time, limit) ==
  LET matching == {i \in 1 .. Len(table) :
                     start_time = 0 \/ table[i].timestamp >= start_time}
      later(i) == {j \in matching : table[j].timestamp > table[i].timestamp}
      desc     == [k \in 1 .. Cardinality(matching) |->
                     table[CHOOSE i \in matching : Cardinality(later(i)) = k - 1]]
  IN  SubSeq(desc, 1, Min(limit, Len(desc)))

\* data_store.py lines 170-181; cutoff is now less the days, in ms
get_events_last_n_days(table, cutoff) == DataStore_get_events(table, cutoff, DEFAULT_LIMIT)

\* One run of main().  table: the rows of typing_logs.  is_logging and buffer:
\* st.session_state.is_logging and the recorder's events.  handed: the lists
\* given to analyze_session and calculate_mood_timeline so far (not read by
\* the program).
InitApp ==
  /\ Constructed
  /\ run = [threads |-> {}, sessions |-> 0, keys |-> 0, ticks |-> 0, unavailable |-> {}, reads |-> FALSE]
  /\ analysis = NoAnalysis
  /\ \E a \in SessionLengths, b \in SessionLengths, live \in SessionLengths,
        logging \in BOOLEAN, c \in Cutoffs :
       app = [pc |-> "311",
              table |-> save_events(save_events(<< >>, SessionEvents(a, Bases.first)),
                                    SessionEvents(b, Bases.second)),
              is_logging |-> logging,
              buffer |-> IF logging THEN SessionEvents(live, Bases.live) ELSE << >>,
              cutoff7 |-> c[1], cutoff1 |-> c[2],
              current_events |-> << >>, events_for_timeline |-> << >>,
              analysis |-> None, timeline |-> None, handed |-> << >>]

AppFrame == UNCHANGED << recorder, host, lthreads, fthreads, hist, run, analysis >>

\* app.py lines 311-312: current_events = logger.get_events() if is_logging
\* else []
main_311 ==
  /\ app.pc = "311"
  /\ app' = [app EXCEPT !.pc = "315",
                        !.current_events = IF app.is_logging THEN app.buffer ELSE << >>]
  /\ AppFrame

\* app.py lines 315-321 (the else of line 322 shows fixed values)
main_315 ==
  /\ app.pc = "315"
  /\ LET historical_events == get_events_last_n_days(app.table, app.cutoff7)
         given == IF app.current_events # << >> THEN app.current_events
                  ELSE historical_events
     IN  app' = IF given # << >>
                  THEN [app EXCEPT !.pc = "383",
                                   !.analysis = Some(analyze_session(given)),
                                   !.handed = Append(@, given)]
                  ELSE [app EXCEPT !.pc = "383"]
  /\ AppFrame

\* app.py lines 383-385: the timeline of the mood graph, window_size 30
main_383 ==
  /\ app.pc = "383"
  /\ LET events_for_timeline ==
           IF app.current_events # << >> THEN app.current_events
           ELSE get_events_last_n_days(app.table, app.cutoff1)
     IN  app' = IF events_for_timeline # << >>
                  THEN [app EXCEPT !.pc = "427",
                                   !.events_for_timeline = events_for_timeline,
                                   !.timeline =
                                      Some(calculate_mood_timeline(events_for_timeline, 30)),
                                   !.handed = Append(@, events_for_timeline)]
                  ELSE [app EXCEPT !.pc = "427"]
  /\ AppFrame

\* app.py lines 426-427: the timeline of the speed trend, window_size 20
main_427 ==
  /\ app.pc = "427"
  /\ app' = IF app.events_for_timeline # << >>
              THEN [app EXCEPT !.pc = "done",
                               !.timeline =
                                  Some(calculate_mood_timeline(app.events_for_timeline, 20)),
                               !.handed = Append(@, app.events_for_timeline)]
              ELSE [app EXCEPT !.pc = "done"]
  /\ AppFrame

NextApp ==
  \/ main_311
  \/ main_315
  \/ main_383
  \/ main_427

SpecApp == InitApp /\ [][NextApp]_vars


\* ================================================================ claims
StopPcs == {"113", "114", "116", "119", "121", "122"}
\* where get_current_stats, get_events and stop read the recorder's fields
ReadPoints == {"128", "139", "140", "143", "147", "148", "150", "162", "121", "122"}

\* ---- C1 ----------------------------------------------------------------
\* C1: a start() called while the recorder is Running changes neither the
\* event buffer, nor the keypress counter, nor last-keypress-time in any of
\* its steps, and returns the session id the recorder holds, without error.
C1_StartWhileRunning ==
  [][\A t \in FG :
       (pc'[t] # pc[t] /\ res'[t].op = "start" /\ res'[t].was_running)
         => /\ UNCHANGED << events, keypress_count, last_keypress_time >>
            /\ pc'[t] = "ret" => /\ res'[t].session_id = session_id
                                 /\ res'[t].session_id # 0
                                 /\ ~res'[t].error]_vars

\* a start() called while Running returns, with an event in the buffer
C1_Witness ==
  \E t \in FG : /\ pc[t] = "ret" /\ res[t].op = "start" /\ res[t].was_running
                /\ Len(events) >= 1 /\ res[t].session_id = events[1].session_id

\* ---- C2 ----------------------------------------------------------------
\* C2: the summary stop() returns counts as many keypresses as it lists
\* events, whatever _on_press was doing meanwhile.
C2_SummaryNotTorn ==
  \A t \in FG :
    (pc[t] = "ret" /\ res[t].op = "stop" /\ ~res[t].empty)
      => res[t].total_keypresses = Len(res[t].events)

\* ---- C3 ----------------------------------------------------------------
\* C3: when no _on_press and no start() is in progress, the buffer holds one
\* event for each key press handled since the last start() that began a
\* session.
C3_ExactlyOnce ==
  ((\A l \in Listeners : lpc[l] = "idle") /\ ~StartInProgress)
    => Len(events) = hist.handled

\* ---- C4 ----------------------------------------------------------------
\* C4: a call of _on_press made when stop() has returned and start() has not
\* been called again changes neither the buffer, nor the counter, nor
\* last-keypress-time, and does not reach the observer.
C4_StopEffective ==
  [][\A l \in Listeners :
       (lloc[l].late /\ AfterStop /\ lpc'[l] # lpc[l])
         => /\ UNCHANGED << events, keypress_count, last_keypress_time >>
            /\ ~(lpc[l] = "78" /\ on_event_callback)]_vars

\* ---- C5 ----------------------------------------------------------------
\* C5: what the observer raises never leaves _on_press.
C5_ObserverErrorSwallowed ==
  \A l \in Listeners : lpc[l] = "raised" => lloc[l].error # "callback"

\* ---- C6 ----------------------------------------------------------------
\* C6: as long as no stop() has found the recorder Running, at most one
\* listener is running, and the start() calls that are returning return one
\* session id.
C6_OneListener ==
  ~hist.stopSeen
    => /\ Cardinality({l \in Listeners : lstate[l] = "running"}) <= 1
       /\ \A t, u \in FG :
            (pc[t] = "ret" /\ res[t].op = "start" /\ ~res[t].error
             /\ pc[u] = "ret" /\ res[u].op = "start" /\ ~res[u].error)
              => res[t].session_id = res[u].session_id

\* ---- C7 ----------------------------------------------------------------
\* C7: whenever the lock is free, and whenever get_current_stats, get_events
\* or stop is about to read the recorder, the counter is the length of the
\* buffer and last-keypress-time is the time stamp of the last event in it
\* (None when it is empty).
C7_NoPartialUpdate ==
  (lock = Free \/ \E t \in FG : pc[t] \in ReadPoints)
    => /\ keypress_count = Len(events)
       /\ last_keypress_time =
            (IF events = << >> THEN None ELSE Some(events[Len(events)].timestamp))

\* ---- C8 ----------------------------------------------------------------
\* C8: in every event of the buffer, is_pause says that the interval is above
\* 2000 ms and is_burst that it is below 50 ms; the two are never both true,
\* and both are false when there is no interval.
WellFlagged(e) ==
  /\ ~(e.is_pause /\ e.is_burst)
  /\ IsNone(e.interval) => (~e.is_pause /\ ~e.is_burst)
  /\ ~IsNone(e.interval) => /\ e.is_pause <=> (Val(e.interval) > 2000)
                            /\ e.is_burst <=> (Val(e.interval) < 50)

C8_Flags == \A i \in 1 .. Len(events) : WellFlagged(events[i])

\* the buffer holds a first event without interval, then a pause
C8_Witness ==
  /\ Len(events) = 2
  /\ IsNone(events[1].interval)
  /\ events[2].is_pause /\ ~events[2].is_burst

\* ---- C9 ----------------------------------------------------------------
\* C9, as stated: two get_current_stats calls with no step of _on_press,
\* start or stop from the first call on return the same six values.
C9_Idempotent ==
  (~IsNone(hist.prev) /\ ~IsNone(hist.last))
    => StatsValue(Val(hist.prev)) = StatsValue(Val(hist.last))

\* C9, amended: two such calls return the same average interval, pause count,
\* burst count and keypress count; they return the same wpm and elapsed
\* seconds as well when both return the defaults (Stopped, or Running with an
\* empty buffer) or both read the same clock value.
C9_IdempotentButClock ==
  (~IsNone(hist.prev) /\ ~IsNone(hist.last))
    => LET a == Val(hist.prev)
           b == Val(hist.last)
       IN  /\ a.avg_interval = b.avg_interval
           /\ a.pause_count = b.pause_count
           /\ a.burst_count = b.burst_count
           /\ a.keypress_count = b.keypress_count
           /\ a.at = b.at => StatsValue(a) = StatsValue(b)

\* two such calls while Running with an event in the buffer, the clock
\* having advanced between them
C9_Witness ==
  /\ ~IsNone(hist.prev) /\ ~IsNone(hist.last)
  /\ ~IsNone(Val(hist.prev).at) /\ ~IsNone(Val(hist.last).at)
  /\ Val(hist.prev).at # Val(hist.last).at
  /\ Val(hist.last).keypress_count >= 1

\* ---- C10 ---------------------------------------------------------------
\* C10: a stop() called while the recorder is Stopped returns the empty
\* result at once and changes no field of the recorder and no listener.
C10_StopWhileStopped ==
  [][\A t \in FG :
       (pc[t] = "idle" /\ pc'[t] # "idle" /\ res'[t].op = "stop" /\ ~is_running)
         => /\ pc'[t] = "ret"
            /\ res'[t].empty /\ res'[t].done
            /\ UNCHANGED << recorder, lstate >>]_vars

\* a stop() returns the empty result after an earlier stop() ended a session
C10_Witness ==
  \E t \in FG : /\ pc[t] = "ret" /\ res[t].op = "stop" /\ res[t].empty
                /\ listener # 0 /\ lstate[listener] = "stopped"

\* ---- C11 ---------------------------------------------------------------
\* C11: a start() whose listener the host cannot start returns an error to
\* its caller, the recorder is never Running on such a listener, and a
\* start() whose listener the host can start returns without error with the
\* recorder Running and that listener running.
C11_UnavailableSource ==
  /\ \A t \in FG :
       (pc[t] = "ret" /\ res[t].op = "start" /\ call[t] \in run.unavailable)
         => res[t].error
  /\ is_running => listener \notin run.unavailable
  /\ \A t \in FG :
       (pc[t] = "ret" /\ res[t].op = "start" /\ call[t] # 0
        /\ call[t] \notin run.unavailable)
         => (~res[t].error /\ is_running /\ lstate[listener] = "running")

\* ---- C12 ---------------------------------------------------------------
IsPrefix(a, b) == Len(a) <= Len(b) /\ SubSeq(b, 1, Len(a)) = a

\* C12: the sequence get_events has returned holds whole events only, and as
\* long as the recorder is in the session in which the copy was made (Running
\* with the same session id, or in the stop() that ends it) the sequence is a
\* prefix of the buffer, which is what a later get_events or the summary of
\* stop() returns.
C12_SnapshotPrefix ==
  \A t \in FG :
    (pc[t] = "ret" /\ res[t].op = "events")
      => /\ \A i \in 1 .. Len(res[t].events) :
              /\ res[t].events[i].session_id # 0
              /\ WellFlagged(res[t].events[i])
         /\ (/\ res[t].running
             /\ res[t].session_id = session_id
             /\ (is_running \/ \E u \in FG : pc[u] \in StopPcs))
              => IsPrefix(res[t].events, events)

\* ---- C13 ---------------------------------------------------------------
\* C13: a start() that begins a session returns the identifier made for it,
\* with nothing in the buffer or the counter but the key presses handled
\* since it was called; and when no start() is in progress every event in the
\* buffer carries the recorder's session id.
C13_FreshSession ==
  /\ \A t \in FG :
       (pc[t] = "ret" /\ res[t].op = "start" /\ ~res[t].was_running /\ ~res[t].error)
         => /\ res[t].session_id = call[t]
            /\ Len(events) <= hist.handled
            /\ keypress_count <= hist.handled
  /\ (~StartInProgress /\ session_id # 0)
       => \A i \in 1 .. Len(events) : events[i].session_id = session_id

\* C14: calculate_energy_score returns an integer from 0 to 100 for every list
\* of events and every wpm argument (none, zero, positive, above the cap of
\* the boost), and 50 for the empty list and for a list in which no event has
\* an interval.
C14_EnergyInRange ==
  analysis.call = "calculate_energy_score"
    => /\ analysis.out \in 0 .. 100
       /\ (analysis.events = << >> \/ Intervals(analysis.events) = << >>)
            => analysis.out = 50

\* C14 witness: a list with intervals and a wpm above the cap of the boost,
\* the score held down at 100.
C14_Witness ==
  /\ analysis.call = "calculate_energy_score"
  /\ Intervals(analysis.events) # << >>
  /\ ~IsNone(analysis.wpm)
  /\ Val(analysis.wpm).num > 60 * Val(analysis.wpm).den
  /\ analysis.out = 100

\* C15: detect_mood returns Neutral with confidence 0.0 and no indicators for
\* every list of fewer than 10 events and for every list in which fewer than
\* 5 events have an interval, whatever the flags, the timestamps and the wpm
\* argument are.
C15_TooFewEvents ==
  (/\ analysis.call = "detect_mood"
   /\ \/ Len(analysis.events) < 10
      \/ Len(Intervals(analysis.events)) < 5)
    => /\ analysis.out = NeutralNoData
       /\ analysis.out.mood = MOOD_NEUTRAL
       /\ analysis.out.confidence = 0
       /\ IsNone(analysis.out.indicators)

\* C15 witness: 10 events or more, some but fewer than 5 of them with an
\* interval, pauses flagged, no timestamps and a wpm given.
C15_Witness ==
  /\ analysis.call = "detect_mood"
  /\ Len(analysis.events) >= 10
  /\ Len(Intervals(analysis.events)) \in 1 .. 4
  /\ PauseCount(analysis.events) > 0
  /\ \E i \in 1 .. Len(analysis.events) : "timestamp" \notin analysis.events[i].has
  /\ ~IsNone(analysis.wpm)
  /\ analysis.out = NeutralNoData

\* the wpm that detect_mood works with in the call recorded in analysis: the
\* argument, or the estimate of lines 122-124 when there is none
WpmOfCall ==
  IF IsNone(analysis.wpm) THEN EstimatedWpm(analysis.events) ELSE Val(analysis.wpm)

\* a call of detect_mood on 10 events or more with 5 intervals or more that
\* returned a result
Classified ==
  /\ analysis.call = "detect_mood"
  /\ Len(analysis.events) >= 10
  /\ Len(Intervals(analysis.events)) >= 5
  /\ ~analysis.out.error

\* C16: for a list of at least 10 events with at least 5 intervals, detect_mood
\* returns the mood of the first condition that holds in the order Focused,
\* Stressed, Relaxed, Fatigued, and Neutral with confidence 0.5 when none
\* holds; an input that satisfies an earlier and a later condition gets the
\* earlier mood, and the confidence is never above 1.0.
C16_FirstRuleWins ==
  Classified =>
    LET r == Rules(Metrics(analysis.events, WpmOfCall))
    IN  /\ analysis.out.mood =
             (IF r[1].holds THEN MOOD_FOCUSED
              ELSE IF r[2].holds THEN MOOD_STRESSED
              ELSE IF r[3].holds THEN MOOD_RELAXED
              ELSE IF r[4].holds THEN MOOD_FATIGUED
              ELSE MOOD_NEUTRAL)
        /\ (\A i \in 1 .. 4 : ~r[i].holds) => analysis.out.confidence = 500
        /\ analysis.out.confidence <= 1000

\* C16 witness: the conditions of Focused and of Fatigued both hold, the
\* result is Focused.
C16_Witness ==
  /\ Classified
  /\ LET r == Rules(Metrics(analysis.events, WpmOfCall))
     IN  r[1].holds /\ r[4].holds
  /\ analysis.out.mood = MOOD_FOCUSED

\* a call of detect_mood on 20 events of which 15 are flagged is_pause
FifteenPauses ==
  /\ analysis.call = "detect_mood"
  /\ Len(analysis.events) = 20
  /\ PauseCount(analysis.events) = 15

\* C17 as stated: detect_mood on any list of 20 events of which 15 are flagged
\* is_pause returns Fatigued with confidence 1.0.
C17_FifteenPauses ==
  FifteenPauses => /\ ~analysis.out.error
                   /\ analysis.out.mood = MOOD_FATIGUED
                   /\ analysis.out.confidence = 1000

\* C17 amended: detect_mood on a list of 20 events of which 15 are flagged
\* is_pause returns Fatigued with confidence 1.0 when at least 5 events have an
\* interval, a result is returned, and neither the condition of Focused nor
\* that of Stressed holds.
C17_FifteenPausesNoEarlierRule ==
  (/\ FifteenPauses
   /\ Classified
   /\ LET r == Rules(Metrics(analysis.events, WpmOfCall))
      IN  ~r[1].holds /\ ~r[2].holds)
    => /\ analysis.out.mood = MOOD_FATIGUED
       /\ analysis.out.confidence = 1000

\* C17 witness: such a call, returning Fatigued with 1.0.
C17_Witness ==
  /\ FifteenPauses
  /\ Classified
  /\ analysis.out.mood = MOOD_FATIGUED
  /\ analysis.out.confidence = 1000

\* a call of calculate_mood_timeline on a list shorter than window_size
ShortCall ==
  /\ analysis.call = "calculate_mood_timeline"
  /\ Len(analysis.events) < analysis.window_size

\* C18: calculate_mood_timeline on a list shorter than window_size returns
\* exactly one point, whose wpm, mood and energy_score are those of
\* analyze_session on the whole list (Neutral, 50 and 0 for the empty list).
\* The events carry timestamps: without them the call may end in KeyError.
C18_ShortTimeline ==
  ShortCall =>
    /\ (\A i \in 1 .. Len(analysis.events) : "timestamp" \in analysis.events[i].has)
         => ~analysis.out.error
    /\ ~analysis.out.error =>
         /\ Len(analysis.out.points) = 1
         /\ ~analyze_session(analysis.events).error
         /\ analysis.out.points[1].mood = analyze_session(analysis.events).mood
         /\ analysis.out.points[1].energy_score
              = analyze_session(analysis.events).energy_score
         /\ analysis.out.points[1].wpm = analyze_session(analysis.events).wpm
    /\ analysis.events = << >> =>
         /\ ~analysis.out.error
         /\ analysis.out.points[1].mood = MOOD_NEUTRAL
         /\ analysis.out.points[1].energy_score = 50
         /\ analysis.out.points[1].wpm = 0

\* C18 witness: a short list long enough to be classified, its one point
\* neither Neutral nor at the score of 50.
C18_Witness ==
  /\ ShortCall
  /\ Len(analysis.events) >= 10
  /\ ~analysis.out.error
  /\ Len(analysis.out.points) = 1
  /\ analysis.out.points[1].mood # MOOD_NEUTRAL
  /\ analysis.out.points[1].energy_score # 50
  /\ analysis.out.points[1].wpm > 0

\* no record of the list given to get_weekly_rhythm has a count above 0
NoActivity ==
  \A i \in 1 .. Len(analysis.hourly_stats) : analysis.hourly_stats[i].keypress_count = 0

\* C19: when the hourly statistics hold no activity (the list is empty or every
\* record has keypress_count 0) the result of get_weekly_rhythm has no peak
\* (peak_day and peak_hour are None) and no insight; insights are given only
\* when some cell has a count above 0, and then at most two.
C19_NoActivityNoPeak ==
  analysis.call = "get_weekly_rhythm" =>
    /\ NoActivity => /\ IsNone(analysis.out.peak_day)
                     /\ IsNone(analysis.out.peak_hour)
                     /\ analysis.out.insights = << >>
    /\ analysis.out.insights # << >>
         => \E c \in Cells : analysis.out.activity_matrix[c[1]][c[2]] > 0
    /\ Len(analysis.out.insights) <= 2

\* the part of C19 on the insights alone
C19_InsightsOnlyWithActivity ==
  analysis.call = "get_weekly_rhythm" =>
    /\ NoActivity => analysis.out.insights = << >>
    /\ analysis.out.insights # << >>
         => \E c \in Cells : analysis.out.activity_matrix[c[1]][c[2]] > 0
    /\ Len(analysis.out.insights) <= 2

\* a call of analyze_session, detect_mood or calculate_mood_timeline on a list
\* that is not empty
TimedCall ==
  /\ analysis.call \in {"analyze_session", "detect_mood", "calculate_mood_timeline"}
  /\ analysis.events # << >>

LacksTimestamp ==
  \E i \in 1 .. Len(analysis.events) : "timestamp" \notin analysis.events[i].has

\* C20: analyze_session, detect_mood and calculate_mood_timeline end in an
\* error, never in a result, whenever an event of a list that is not empty has
\* no timestamp, wherever that event stands and however long the list is; an
\* event without interval, is_pause or is_burst never causes an error.
C20_MissingTimestampFails ==
  TimedCall => /\ LacksTimestamp => analysis.out.error
               /\ ~LacksTimestamp => ~analysis.out.error

\* the part of C20 on the other fields alone
C20_OtherFieldsOptional ==
  (TimedCall /\ ~LacksTimestamp) => ~analysis.out.error

\* the keys of the dict that analyze_session returns at lines 202-210 (error
\* tells a result from a KeyError)
SessionFields ==
  {"error", "mood", "mood_confidence", "energy_score", "wpm", "total_keypresses",
   "duration_seconds", "indicators"}

\* C21: analyze_session returns the same set of fields for every input: for
\* the empty list, for fewer than 10 events and for fewer than 5 intervals
\* the result carries a mood, a mood confidence, an energy score, a wpm, a
\* keypress count, a duration and an indicator set, as for sufficient data.
C21_SameFields ==
  (analysis.call = "analyze_session" /\ ~analysis.out.error)
    => DOMAIN analysis.out = SessionFields

\* the part of C21 on lists that are not empty
C21_SameFieldsNonEmpty ==
  (/\ analysis.call = "analyze_session"
   /\ ~analysis.out.error
   /\ analysis.events # << >>)
    => DOMAIN analysis.out = SessionFields

\* C22: in every reachable state the first event of the buffer has no
\* interval and the interval of every later event is its timestamp less the
\* timestamp of the event before it in the buffer; the first event recorded
\* after a start() that begins a session carries no interval measured from a
\* key press of the session before.
C22_IntervalsFromBuffer ==
  \A i \in 1 .. Len(events) :
    IF i = 1 THEN IsNone(events[i].interval)
    ELSE events[i].interval = Some(events[i].timestamp - events[i - 1].timestamp)

\* C23: in every reachable state the timestamps of the events of the buffer
\* do not decrease in the order of the buffer and no interval is negative,
\* however the _on_press calls interleave with each other and with start and
\* stop; the clock never goes backwards.
C23_TimestampsOrdered ==
  /\ \A i \in 2 .. Len(events) : events[i - 1].timestamp <= events[i].timestamp
  /\ \A i \in 1 .. Len(events) :
       ~IsNone(events[i].interval) => Val(events[i].interval) >= 0

\* a call of calculate_mood_timeline on a list of at least window_size events
\* that returned a timeline
SlidingCall ==
  /\ analysis.call = "calculate_mood_timeline"
  /\ Len(analysis.events) >= analysis.window_size
  /\ ~analysis.out.error

\* C24: for window_size w >= 1 and n >= w events calculate_mood_timeline
\* returns floor((n - w) / step) + 1 points with step = max(1, w div 2); point
\* k (from 0) is the analyze_session result of the w events from index k * step
\* on, with the timestamp of the last of them; no window goes past the end of
\* the list, and the events of a tail shorter than a window give no point.
C24_WindowCount ==
  /\ (/\ analysis.call = "calculate_mood_timeline"
      /\ Len(analysis.events) >= analysis.window_size
      /\ \A i \in 1 .. Len(analysis.events) : "timestamp" \in analysis.events[i].has)
       => ~analysis.out.error
  /\ SlidingCall =>
       LET n     == Len(analysis.events)
           w     == analysis.window_size
           step  == IF w \div 2 >= 1 THEN w \div 2 ELSE 1
           count == (n - w) \div step + 1
       IN  /\ Len(analysis.out.points) = count
           /\ \A k \in 0 .. (count - 1) :
                LET window == SubSeq(analysis.events, k * step + 1, k * step + w)
                    p      == analysis.out.points[k + 1]
                IN  /\ k * step + w <= n
                    /\ p.timestamp = analysis.events[k * step + w].timestamp
                    /\ p.mood = analyze_session(window).mood
                    /\ p.energy_score = analyze_session(window).energy_score
                    /\ p.wpm = analyze_session(window).wpm

\* C24 witness: windows of 4 events, 2 apart, over a list whose last event
\* falls into no window; more than one point.
C24_Witness ==
  /\ SlidingCall
  /\ analysis.window_size = 4
  /\ (Len(analysis.events) - analysis.window_size) % 2 = 1
  /\ Len(analysis.out.points) >= 2
  /\ analysis.out.points[Len(analysis.out.points)].timestamp
       < analysis.events[Len(analysis.events)].timestamp

\* the time from the first to the last event of the list of the call (ms)
SpanOfCall ==
  analysis.events[Len(analysis.events)].timestamp - analysis.events[1].timestamp

\* (n / 5) / max(span_minutes, 0.01) for the list of the call
WpmBySpan == Ratio(12000 * Len(analysis.events), Max(SpanOfCall, 600))

\* the mood that the order of the conditions gives with a wpm of w
MoodWithWpm(w) ==
  LET r == Rules(Metrics(analysis.events, w))
  IN  IF r[1].holds THEN MOOD_FOCUSED
      ELSE IF r[2].holds THEN MOOD_STRESSED
      ELSE IF r[3].holds THEN MOOD_RELAXED
      ELSE IF r[4].holds THEN MOOD_FATIGUED
      ELSE MOOD_NEUTRAL

\* C25: detect_mood called without wpm on n events classifies with, and
\* reports in the indicators, the wpm (n / 5) / max(span_minutes, 0.01), where
\* span_minutes is the time from the first to the last timestamp; also when
\* the span is zero or negative.
C25_EstimatedWpm ==
  (Classified /\ IsNone(analysis.wpm))
    => /\ Val(analysis.out.indicators).wpm = Round1(WpmBySpan.num, WpmBySpan.den)
       /\ analysis.out.mood = MoodWithWpm(WpmBySpan)

\* the part of C25 on a span above zero
C25_EstimatedWpmPositiveSpan ==
  (Classified /\ IsNone(analysis.wpm) /\ SpanOfCall > 0)
    => /\ Val(analysis.out.indicators).wpm = Round1(WpmBySpan.num, WpmBySpan.den)
       /\ analysis.out.mood = MoodWithWpm(WpmBySpan)

\* a call of get_weekly_rhythm on a list that is not empty
WeeklyCall ==
  /\ analysis.call = "get_weekly_rhythm"
  /\ analysis.hourly_stats # << >>

\* the records of the list of the call for day d, hour h
RecordsFor(d, h) ==
  {i \in 1 .. Len(analysis.hourly_stats) :
     /\ analysis.hourly_stats[i].day_of_week = d
     /\ analysis.hourly_stats[i].hour = h}

\* the one record (day 1, hour 9, count 120)
MondayNine == << [day_of_week |-> 1, hour |-> 9, keypress_count |-> 120] >>

\* C26: for a list of hourly records that is not empty, days 0..6 and hours
\* 0..23, get_weekly_rhythm returns a matrix of 7 days of 24 hours in which a
\* cell holds the count given for its day and hour (the last one given, if
\* several) and 0 when none was given; the peak is the first cell, going
\* through days 0..6 and in a day through hours 0..23, that holds the largest
\* count.  The one record (day 1, hour 9, count 120) gives peak_day 1,
\* peak_hour 9, one cell of 120 and 0 in all others.
C26_WeeklyMatrix ==
  WeeklyCall =>
    LET m == analysis.out.activity_matrix
        peak == << Val(analysis.out.peak_day), Val(analysis.out.peak_hour) >>
    IN  /\ DOMAIN m = 0 .. 6
        /\ \A d \in 0 .. 6 : DOMAIN m[d] = 0 .. 23
        /\ \A c \in Cells :
             m[c[1]][c[2]] =
               (IF RecordsFor(c[1], c[2]) = {} THEN 0
                ELSE analysis.hourly_stats[
                       CHOOSE i \in RecordsFor(c[1], c[2]) :
                         \A j \in RecordsFor(c[1], c[2]) : j <= i].keypress_count)
        /\ peak \in Cells
        /\ \A c \in Cells : m[c[1]][c[2]] <= m[peak[1]][peak[2]]
        /\ \A c \in Cells : m[c[1]][c[2]] = m[peak[1]][peak[2]]
                              => (c = peak \/ ScannedBefore(peak, c))
        /\ analysis.hourly_stats = MondayNine
             => /\ peak = << 1, 9 >>
                /\ m[1][9] = 120
                /\ \A c \in Cells \ {<< 1, 9 >>} : m[c[1]][c[2]] = 0

\* C26 witness: the one record (day 1, hour 9, count 120), its peak reported.
C26_Witness ==
  /\ WeeklyCall
  /\ analysis.hourly_stats = MondayNine
  /\ analysis.out.peak_day = Some(1)
  /\ analysis.out.peak_hour = Some(9)
  /\ analysis.out.activity_matrix[1][9] = 120

\* the timestamps of a list do not decrease
Chronological(evs) ==
  \A i \in 2 .. Len(evs) : evs[i - 1].timestamp <= evs[i].timestamp

\* C27: every list of events that the application gives to analyze_session or
\* calculate_mood_timeline, the recorder's buffer read with get_events() or
\* the events loaded from the store for the last days, is in the order of
\* time, and the timeline built from it has timestamps that do not decrease
\* from its first point to its last.
C27_ChronologicalInput ==
  app.pc # "none" =>
    /\ \A k \in 1 .. Len(app.handed) : Chronological(app.handed[k])
    /\ (~IsNone(app.timeline) /\ ~Val(app.timeline).error)
         => Chronological(Val(app.timeline).points)

\* the part of C27 on the recorder's buffer
C27_LiveChronological ==
  (app.pc # "none" /\ app.current_events # << >>) =>
    /\ \A k \in 1 .. Len(app.handed) : Chronological(app.handed[k])
    /\ (~IsNone(app.timeline) /\ ~Val(app.timeline).error)
         => Chronological(Val(app.timeline).points)

\* the part of C27 on the timeline alone
C27_TimelineChronological ==
  (app.pc # "none" /\ ~IsNone(app.timeline) /\ ~Val(app.timeline).error)
    => Chronological(Val(app.timeline).points)

\* C28: the recorder never blocks forever on its own lock.  Every _on_press
\* that has begun ends (it gets the lock and gives it back when it returns or
\* raises), also when the observer raises and when the observer reads the
\* recorder with get_current_stats() or get_events(); the lock, once held, is
\* free again later, so that readers are served.
C28_LockLiveness ==
  /\ \A l \in Listeners : (lpc[l] # "idle") ~> (lpc[l] = "idle")
  /\ (lock # Free) ~> (lock = Free)

====
